---- MODULE Spec2Model ----
(***************************************************************************)
(* Model of the playback control core of audio-cutter:                     *)
(*   src/src/audio_thread.rs      AudioThread (handle), playback_audio     *)
(*                                (worker loop), handle_command            *)
(*   src/src/audio_cutter_app.rs  AudioCutterApp (the controller)          *)
(*                                                                         *)
(* Two threads: the controller (owner of the AudioThread handle) and the   *)
(* worker (playback_audio).  They share the mpsc channel and the           *)
(* Arc<Mutex<Duration>> time cell.  The rodio sink is owned by the worker; *)
(* rodio's own output thread advances its position and removes a source    *)
(* that has been played to its end.                                        *)
(***************************************************************************)
EXTENDS Naturals, Sequences, FiniteSets

VARIABLES
    \* ---- AudioThread (audio_thread.rs:16-23) and its owner
    ctlPc,              \* position of the controller thread
    commands_sender,    \* TRUE: Some(sender), FALSE: None (taken in drop)
    thread_handle,      \* TRUE: Some(join handle), FALSE: None (taken in drop)
    sendResult,         \* result of the last send(): "none" | "Ok" | "Err"
    drops,              \* number of times the body of Drop::drop was entered
    \* ---- std::sync::mpsc channel
    queue,              \* commands in flight, oldest first
    receiverAlive,      \* TRUE while ThreadContext.commands_receiver exists
    \* ---- worker thread (playback_audio)
    workerPc,           \* position of the worker thread
    sampled,            \* value of audio_sink.get_pos() awaiting its store
    repaints,           \* request_repaint() calls in the current loop iteration
    audio_sink,         \* rodio::Sink: [queue, paused, pos]
    \* ---- Arc<Mutex<Duration>>
    time_elapsed,       \* the duration stored in the cell
    lockHolder,         \* "none" | "controller" | "worker"
    \* ---- history (not program state)
    nSent,              \* number of commands accepted by send()
    nApplied,           \* number of commands passed to handle_command
    lastApplied,        \* the last command passed to handle_command
    lastWrite,          \* origin of the cell's value: "spawn" | "stop" | "tick" | "stale"
    lastRead,           \* value returned by the last time_elapsed() since a Stop or
                        \* Play was last applied, 0 if there was none
    readStale,          \* that read returned a value older than the last Play
    appliedAfterClose,  \* commands passed to handle_command after the send side was closed
    playApplied,        \* a Play was applied since the spawn or the last Stop
    \* ---- AudioCutterApp (audio_cutter_app.rs:15-25)
    playback_status,    \* "Playing" | "Paused" | "Stopped"
    current_file_name,  \* TRUE: Some(path)
    audio_source        \* NoSrc: None, otherwise the loaded source

ctlVars    == <<ctlPc, commands_sender, thread_handle, sendResult, drops>>
chanVars   == <<queue, receiverAlive>>
workerVars == <<workerPc, sampled, repaints, audio_sink>>
cellVars   == <<time_elapsed, lockHolder>>
histVars   == <<nSent, nApplied, lastApplied, lastWrite, lastRead, readStale,
               appliedAfterClose, playApplied>>
appVars    == <<playback_status, current_file_name, audio_source>>
vars       == <<ctlVars, chanVars, workerVars, cellVars, histVars, appVars>>

----------------------------------------------------------------------------
\* Bounds of the model
MaxSent    == 3     \* commands accepted by send() in one behaviour
SrcLen     == 2     \* length of a source, in position units
MaxDrops   == 2     \* times the body of Drop::drop is run on the handle

\* Audio sources are opaque to the core: two distinct ones tell a source
\* from another one
Sources == {"A", "B"}
NoSrc   == "none"

\* AudioControlCommand
Play(s)  == [op |-> "Play", src |-> s]
Pause    == [op |-> "Pause", src |-> NoSrc]
Continue == [op |-> "Continue", src |-> NoSrc]
Stop     == [op |-> "Stop", src |-> NoSrc]
AudioControlCommand == {Play(s) : s \in Sources} \cup {Pause, Continue, Stop}

\* A command in the channel carries the number of the send() that accepted it
Numbered(command, n) == [op |-> command.op, src |-> command.src, seq |-> n]
NoCmd == [op |-> "None", src |-> NoSrc, seq |-> 0]

Last(s) == s[Len(s)]
Min(a, b) == IF a <= b THEN a ELSE b

----------------------------------------------------------------------------
\* rodio::Sink primitives used by the worker

\* Sink::try_new: nothing queued, not paused, position zero
SinkNew == [queue |-> <<>>, paused |-> FALSE, pos |-> 0]

\* Sink::clear: drops every queued source and pauses the sink
SinkClearPausesOnly(s) == [s EXCEPT !.paused = TRUE]
SinkClear(s) ==
    [queue |-> <<>>, paused |-> TRUE,
     pos |-> IF s.queue # <<>> THEN 0 ELSE s.pos]

\* Sink::append: queues the source; a source appended to an empty sink is
\* the one being played, from its start
SinkAppend(s, src) ==
    [queue |-> Append(s.queue, src), paused |-> s.paused,
     pos |-> IF s.queue = <<>> THEN 0 ELSE s.pos]

\* Sink::play and Sink::pause
SinkPlay(s)  == [s EXCEPT !.paused = FALSE]
SinkPauseIgnored(s) == s
SinkPause(s) == [s EXCEPT !.paused = TRUE]

\* Sink::empty() || Sink::is_paused(): the worker's choice of wait mode
IdleNever(s) == FALSE
IdleIgnoresPause(s) == s.queue = <<>>
IdleWaiting(s) == s.queue = <<>> \/ s.paused

----------------------------------------------------------------------------
\* std::sync::mpsc receive: a queued message is returned first, also after
\* the sender is gone; Disconnected only when the queue is empty and no
\* sender remains; Empty (try_recv) or blocking (recv) otherwise.
ChannelPopLifo(q, senderAlive) ==
    IF q # <<>> THEN [kind |-> "Ok", cmd |-> Last(q), rest |-> SubSeq(q, 1, Len(q) - 1)]
    ELSE IF senderAlive THEN [kind |-> "Empty", cmd |-> NoCmd, rest |-> q]
    ELSE [kind |-> "Disconnected", cmd |-> NoCmd, rest |-> q]
ChannelPopDiscard(q, senderAlive) ==
    IF ~senderAlive THEN [kind |-> "Disconnected", cmd |-> NoCmd, rest |-> <<>>]
    ELSE IF q # <<>> THEN [kind |-> "Ok", cmd |-> Head(q), rest |-> Tail(q)]
    ELSE [kind |-> "Empty", cmd |-> NoCmd, rest |-> q]
ChannelPopHangsUp(q, senderAlive) ==
    IF q # <<>> THEN [kind |-> "Ok", cmd |-> Head(q), rest |-> Tail(q)]
    ELSE [kind |-> "Disconnected", cmd |-> NoCmd, rest |-> q]
ChannelPop(q, senderAlive) ==
    IF q # <<>> THEN [kind |-> "Ok", cmd |-> Head(q), rest |-> Tail(q)]
    ELSE IF senderAlive THEN [kind |-> "Empty", cmd |-> NoCmd, rest |-> q]
    ELSE [kind |-> "Disconnected", cmd |-> NoCmd, rest |-> q]

----------------------------------------------------------------------------
\* AudioThread::spawn, called by the first AudioCutterApp::update on the
\* Default app: channel and cell created, worker thread started.
Init ==
    /\ ctlPc = "live"
    /\ commands_sender = TRUE
    /\ thread_handle = TRUE
    /\ sendResult = "none"
    /\ drops = 0
    /\ queue = <<>>
    /\ receiverAlive = TRUE
    /\ workerPc = "start"
    /\ sampled = 0
    /\ repaints = 0
    /\ audio_sink = SinkNew
    /\ time_elapsed = 0
    /\ lockHolder = "none"
    /\ nSent = 0
    /\ nApplied = 0
    /\ lastApplied = NoCmd
    /\ lastWrite = "spawn"
    /\ lastRead = 0
    /\ readStale = FALSE
    /\ appliedAfterClose = 0
    /\ playApplied = FALSE
    /\ playback_status = "Stopped"
    /\ current_file_name = FALSE
    /\ audio_source = NoSrc

----------------------------------------------------------------------------
\* Controller side: AudioThread's methods

\* AudioThread::send: commands_sender.as_ref().unwrap().send(command).
\* mpsc's send never blocks; it fails once the receiver has been dropped.
sendAlwaysOk(command) ==
    /\ commands_sender
    /\ queue' = Append(queue, Numbered(command, nSent + 1))
    /\ nSent' = nSent + 1
    /\ sendResult' = "Ok"
send(command) ==
    /\ commands_sender
    /\ IF receiverAlive
       THEN /\ queue' = Append(queue, Numbered(command, nSent + 1))
            /\ nSent' = nSent + 1
            /\ sendResult' = "Ok"
       ELSE /\ UNCHANGED <<queue, nSent>>
            /\ sendResult' = "Err"

\* Any caller of AudioThread::send, with any command
Send ==
    /\ ctlPc = "live"
    /\ nSent < MaxSent
    /\ \E command \in AudioControlCommand : send(command)
    /\ UNCHANGED <<ctlPc, commands_sender, thread_handle, drops>>
    /\ UNCHANGED <<receiverAlive, workerVars, cellVars, appVars>>
    /\ UNCHANGED <<nApplied, lastApplied, lastWrite, lastRead, readStale,
                   appliedAfterClose, playApplied>>

\* AudioThread::time_elapsed: self.time_elapsed.lock().unwrap() ...
ReadLockTakes ==
    /\ ctlPc = "live"
    /\ lockHolder = "none"
    /\ lockHolder' = "controller"
    /\ ctlPc' = "reading"
    /\ time_elapsed' = 0
    /\ UNCHANGED <<commands_sender, thread_handle, sendResult, drops>>
    /\ UNCHANGED <<chanVars, workerVars, histVars, appVars>>
ReadLock ==
    /\ ctlPc = "live"
    /\ lockHolder = "none"
    /\ lockHolder' = "controller"
    /\ ctlPc' = "reading"
    /\ UNCHANGED <<commands_sender, thread_handle, sendResult, drops>>
    /\ UNCHANGED <<chanVars, workerVars, time_elapsed, histVars, appVars>>

\* ... the value is copied out and the guard dropped at the end of the statement
ReadCopyHoldsLock ==
    /\ ctlPc = "reading"
    /\ lastRead' = time_elapsed
    /\ ctlPc' = "live"
    /\ readStale' = (lastWrite = "stale")
    /\ UNCHANGED <<commands_sender, thread_handle, sendResult, drops>>
    /\ UNCHANGED <<chanVars, workerVars, time_elapsed, lockHolder, appVars>>
    /\ UNCHANGED <<nSent, nApplied, lastApplied, lastWrite, appliedAfterClose, playApplied>>
ReadCopy ==
    /\ ctlPc = "reading"
    /\ lastRead' = time_elapsed
    /\ lockHolder' = "none"
    /\ ctlPc' = "live"
    /\ readStale' = (lastWrite = "stale")
    /\ UNCHANGED <<commands_sender, thread_handle, sendResult, drops>>
    /\ UNCHANGED <<chanVars, workerVars, time_elapsed, appVars>>
    /\ UNCHANGED <<nSent, nApplied, lastApplied, lastWrite, appliedAfterClose, playApplied>>

\* Drop for AudioThread, first statement: drop(self.commands_sender.take()).
\* Entered when the owner of the handle goes away (or unwinds); entered once
\* more on the emptied handle to exercise the second teardown.
DropKeepSender ==
    /\ \/ ctlPc \in {"live", "unwinding"}
       \/ ctlPc = "dropped" /\ drops < MaxDrops
    /\ drops' = drops + 1
    /\ ctlPc' = "drop_join"
    /\ UNCHANGED <<commands_sender, thread_handle, sendResult>>
    /\ UNCHANGED <<chanVars, workerVars, cellVars, histVars, appVars>>
DropCloseSender ==
    /\ \/ ctlPc \in {"live", "unwinding"}
       \/ ctlPc = "dropped" /\ drops < MaxDrops
    /\ commands_sender' = FALSE
    /\ drops' = drops + 1
    /\ ctlPc' = "drop_join"
    /\ UNCHANGED <<thread_handle, sendResult>>
    /\ UNCHANGED <<chanVars, workerVars, cellVars, histVars, appVars>>

\* Drop, second statement: if let Some(thread) = self.thread_handle.take()
DropJoinNoTake ==
    /\ ctlPc = "drop_join"
    /\ ctlPc' = IF thread_handle THEN "joining" ELSE "dropped"
    /\ UNCHANGED <<commands_sender, thread_handle, sendResult, drops>>
    /\ UNCHANGED <<chanVars, workerVars, cellVars, histVars, appVars>>
DropJoin ==
    /\ ctlPc = "drop_join"
    /\ thread_handle' = FALSE
    /\ ctlPc' = IF thread_handle THEN "joining" ELSE "dropped"
    /\ UNCHANGED <<commands_sender, sendResult, drops>>
    /\ UNCHANGED <<chanVars, workerVars, cellVars, histVars, appVars>>

\* thread.join().unwrap(): Err (and so a panic in drop) if the worker panicked
JoinOutcomeSwallowed(wpc) == "dropped"
JoinOutcome(wpc) == IF wpc = "panicked" THEN "drop_panicked" ELSE "dropped"

\* join() returns once the worker thread has ended
JoinReturn ==
    /\ ctlPc = "joining"
    /\ workerPc \in {"done", "panicked"}
    /\ ctlPc' = JoinOutcome(workerPc)
    /\ UNCHANGED <<commands_sender, thread_handle, sendResult, drops>>
    /\ UNCHANGED <<chanVars, workerVars, cellVars, histVars, appVars>>

----------------------------------------------------------------------------
\* Worker side: playback_audio and handle_command

\* rodio::OutputStream::try_default().unwrap(), rodio::Sink::try_new().unwrap()
StartOk ==
    /\ workerPc = "start"
    /\ audio_sink' = SinkNew
    /\ workerPc' = "loop"
    /\ UNCHANGED <<sampled, repaints>>
    /\ UNCHANGED <<ctlVars, chanVars, cellVars, histVars, appVars>>

\* ... one of the unwraps panics: the thread unwinds, dropping thread_ctx and
\* with it the receiver and whatever the channel still holds
StartFail ==
    /\ workerPc = "start"
    /\ workerPc' = "panicked"
    /\ receiverAlive' = FALSE
    /\ queue' = <<>>
    /\ UNCHANGED <<sampled, repaints, audio_sink>>
    /\ UNCHANGED <<ctlVars, cellVars, histVars, appVars>>

\* top of the loop: if audio_sink.empty() || audio_sink.is_paused()
LoopCheck ==
    /\ workerPc = "loop"
    /\ workerPc' = IF IdleWaiting(audio_sink) THEN "recv" ELSE "try_recv"
    /\ repaints' = 0
    /\ UNCHANGED <<sampled, audio_sink>>
    /\ UNCHANGED <<ctlVars, chanVars, cellVars, histVars, appVars>>

\* handle_command: the sink calls of each arm; the Stop arm goes on to reset
\* the time cell
HandleCommandNoClear(command) ==
    /\ audio_sink' =
         CASE command.op = "Play" -> SinkPlay(SinkAppend(audio_sink, command.src))
           [] command.op = "Pause" -> SinkPause(audio_sink)
           [] command.op = "Continue" -> SinkPlay(audio_sink)
           [] command.op = "Stop" -> SinkClear(audio_sink)
    /\ workerPc' = IF command.op = "Stop" THEN "stop_lock" ELSE "loop"
    /\ UNCHANGED time_elapsed
HandleCommandPauseResets(command) ==
    /\ audio_sink' =
         CASE command.op = "Play" ->
                SinkPlay(SinkAppend(SinkClear(audio_sink), command.src))
           [] command.op = "Pause" -> SinkPause(audio_sink)
           [] command.op = "Continue" -> SinkPlay(audio_sink)
           [] command.op = "Stop" -> SinkClear(audio_sink)
    /\ workerPc' = IF command.op = "Stop" THEN "stop_lock" ELSE "loop"
    /\ time_elapsed' = IF command.op = "Pause" THEN 0 ELSE time_elapsed
HandleCommand(command) ==
    /\ audio_sink' =
         CASE command.op = "Play" ->
                SinkPlay(SinkAppend(SinkClear(audio_sink), command.src))
           [] command.op = "Pause" -> SinkPause(audio_sink)
           [] command.op = "Continue" -> SinkPlay(audio_sink)
           [] command.op = "Stop" -> SinkClear(audio_sink)
    /\ workerPc' = IF command.op = "Stop" THEN "stop_lock" ELSE "loop"
    /\ UNCHANGED time_elapsed

\* A command taken from the channel is passed to handle_command
Received(command) ==
    /\ HandleCommand(command)
    /\ nApplied' = nApplied + 1
    /\ lastApplied' = command
    /\ lastRead' = IF command.op \in {"Play", "Stop"} THEN 0 ELSE lastRead
    /\ readStale' = IF command.op \in {"Play", "Stop"} THEN FALSE ELSE readStale
    /\ lastWrite' = IF command.op = "Play" /\ lastWrite = "tick"
                    THEN "stale" ELSE lastWrite
    /\ UNCHANGED <<receiverAlive, sampled, repaints, lockHolder>>
    /\ appliedAfterClose' = IF commands_sender THEN 0 ELSE Min(2, appliedAfterClose + 1)
    /\ playApplied' = CASE command.op = "Play" -> TRUE
                         [] command.op = "Stop" -> FALSE
                         [] OTHER -> playApplied
    /\ UNCHANGED <<nSent, ctlVars, appVars>>

\* The loop returns: the thread ends and thread_ctx is dropped
Disconnected ==
    /\ workerPc' = "done"
    /\ receiverAlive' = FALSE
    /\ UNCHANGED <<sampled, repaints, audio_sink>>
    /\ UNCHANGED <<ctlVars, cellVars, histVars, appVars>>

\* Idle-Waiting: if let Ok(command) = commands_receiver.recv() { .. } else { return }
Recv ==
    /\ workerPc = "recv"
    /\ \/ /\ ChannelPop(queue, commands_sender).kind = "Ok"
          /\ queue' = ChannelPop(queue, commands_sender).rest
          /\ Received(ChannelPop(queue, commands_sender).cmd)
       \/ /\ ChannelPop(queue, commands_sender).kind = "Disconnected"
          /\ queue' = ChannelPop(queue, commands_sender).rest
          /\ Disconnected

\* Active-Polling: match commands_receiver.try_recv(); with no command ready
\* the right-hand side audio_sink.get_pos() is evaluated
TryRecvNeverTakes ==
    /\ workerPc = "try_recv"
    /\ \/ /\ ChannelPop(queue, commands_sender).kind = "Disconnected"
          /\ queue' = ChannelPop(queue, commands_sender).rest
          /\ Disconnected
       \/ /\ ChannelPop(queue, commands_sender).kind \in {"Ok", "Empty"}
          /\ sampled' = audio_sink.pos
          /\ workerPc' = "tick_lock"
          /\ UNCHANGED <<repaints, audio_sink>>
          /\ UNCHANGED <<ctlVars, chanVars, cellVars, histVars, appVars>>
TryRecv ==
    /\ workerPc = "try_recv"
    /\ \/ /\ ChannelPop(queue, commands_sender).kind = "Ok"
          /\ queue' = ChannelPop(queue, commands_sender).rest
          /\ Received(ChannelPop(queue, commands_sender).cmd)
       \/ /\ ChannelPop(queue, commands_sender).kind = "Disconnected"
          /\ queue' = ChannelPop(queue, commands_sender).rest
          /\ Disconnected
       \/ /\ ChannelPop(queue, commands_sender).kind = "Empty"
          /\ sampled' = audio_sink.pos
          /\ workerPc' = "tick_lock"
          /\ UNCHANGED <<repaints, audio_sink>>
          /\ UNCHANGED <<ctlVars, chanVars, cellVars, histVars, appVars>>

\* tick: thread_ctx.time_elapsed.lock().unwrap()
TickLock ==
    /\ workerPc = "tick_lock"
    /\ lockHolder = "none"
    /\ lockHolder' = "worker"
    /\ workerPc' = "tick_write"
    /\ UNCHANGED <<sampled, repaints, audio_sink, time_elapsed>>
    /\ UNCHANGED <<ctlVars, chanVars, histVars, appVars>>

\* tick: *guard = <sampled position>; the guard is dropped with the statement
TickWriteZero ==
    /\ workerPc = "tick_write"
    /\ time_elapsed' = 0
    /\ sampled' = 0
    /\ lockHolder' = "none"
    /\ lastWrite' = "tick"
    /\ workerPc' = "tick_repaint"
    /\ UNCHANGED <<repaints, audio_sink>>
    /\ UNCHANGED <<nSent, nApplied, lastApplied, lastRead, readStale,
                   appliedAfterClose, playApplied>>
    /\ UNCHANGED <<ctlVars, chanVars, appVars>>
TickWrite ==
    /\ workerPc = "tick_write"
    /\ time_elapsed' = sampled
    /\ sampled' = 0
    /\ lockHolder' = "none"
    /\ lastWrite' = "tick"
    /\ workerPc' = "tick_repaint"
    /\ UNCHANGED <<repaints, audio_sink>>
    /\ UNCHANGED <<nSent, nApplied, lastApplied, lastRead, readStale,
                   appliedAfterClose, playApplied>>
    /\ UNCHANGED <<ctlVars, chanVars, appVars>>

\* tick: thread_ctx.ui_ctx.request_repaint()
TickRepaint ==
    /\ workerPc = "tick_repaint"
    /\ repaints' = repaints + 1
    /\ workerPc' = "tick_sleep"
    /\ UNCHANGED <<sampled, audio_sink>>
    /\ UNCHANGED <<ctlVars, chanVars, cellVars, histVars, appVars>>

\* tick: std::thread::sleep(100 ms), then the next iteration
TickSleep ==
    /\ workerPc = "tick_sleep"
    /\ workerPc' = "loop"
    /\ UNCHANGED <<sampled, repaints, audio_sink>>
    /\ UNCHANGED <<ctlVars, chanVars, cellVars, histVars, appVars>>

\* Stop arm: thread_ctx.time_elapsed.lock().unwrap()
StopLock ==
    /\ workerPc = "stop_lock"
    /\ lockHolder = "none"
    /\ lockHolder' = "worker"
    /\ workerPc' = "stop_write"
    /\ UNCHANGED <<sampled, repaints, audio_sink, time_elapsed>>
    /\ UNCHANGED <<ctlVars, chanVars, histVars, appVars>>

\* Stop arm: *guard = Duration::ZERO
StopWriteKeeps ==
    /\ workerPc = "stop_write"
    /\ lockHolder' = "none"
    /\ lastWrite' = "stop"
    /\ lastRead' = 0
    /\ readStale' = FALSE
    /\ workerPc' = "stop_repaint"
    /\ UNCHANGED <<sampled, repaints, audio_sink, time_elapsed>>
    /\ UNCHANGED <<nSent, nApplied, lastApplied, appliedAfterClose, playApplied>>
    /\ UNCHANGED <<ctlVars, chanVars, appVars>>
StopWrite ==
    /\ workerPc = "stop_write"
    /\ time_elapsed' = 0
    /\ lockHolder' = "none"
    /\ lastWrite' = "stop"
    /\ lastRead' = 0
    /\ readStale' = FALSE
    /\ workerPc' = "stop_repaint"
    /\ UNCHANGED <<sampled, repaints, audio_sink>>
    /\ UNCHANGED <<nSent, nApplied, lastApplied, appliedAfterClose, playApplied>>
    /\ UNCHANGED <<ctlVars, chanVars, appVars>>

\* Stop arm: thread_ctx.ui_ctx.request_repaint(); back to the loop
StopRepaintSkipped ==
    /\ workerPc = "stop_repaint"
    /\ workerPc' = "loop"
    /\ UNCHANGED <<sampled, repaints, audio_sink>>
    /\ UNCHANGED <<ctlVars, chanVars, cellVars, histVars, appVars>>
StopRepaint ==
    /\ workerPc = "stop_repaint"
    /\ repaints' = repaints + 1
    /\ workerPc' = "loop"
    /\ UNCHANGED <<sampled, audio_sink>>
    /\ UNCHANGED <<ctlVars, chanVars, cellVars, histVars, appVars>>

WorkerNext ==
    \/ StartOk \/ StartFail \/ LoopCheck \/ Recv \/ TryRecv
    \/ TickLock \/ TickWrite \/ TickRepaint \/ TickSleep
    \/ StopLock \/ StopWrite \/ StopRepaint

----------------------------------------------------------------------------
\* rodio's output thread, as seen through empty() and get_pos()

SinkLive == workerPc \notin {"start", "done", "panicked"}

\* the source being played moves on
SinkAdvance ==
    /\ SinkLive
    /\ audio_sink.queue # <<>> /\ ~audio_sink.paused
    /\ audio_sink.pos < SrcLen
    /\ audio_sink' = [audio_sink EXCEPT !.pos = @ + 1]
    /\ UNCHANGED <<workerPc, sampled, repaints>>
    /\ UNCHANGED <<ctlVars, chanVars, cellVars, histVars, appVars>>

\* the source being played reaches its end and leaves the sink
SinkFinish ==
    /\ SinkLive
    /\ audio_sink.queue # <<>> /\ ~audio_sink.paused
    /\ audio_sink.pos = SrcLen
    /\ audio_sink' = [audio_sink EXCEPT !.queue = Tail(@),
                        !.pos = IF Tail(audio_sink.queue) = <<>> THEN @ ELSE 0]
    /\ UNCHANGED <<workerPc, sampled, repaints>>
    /\ UNCHANGED <<ctlVars, chanVars, cellVars, histVars, appVars>>

SinkNext == SinkAdvance \/ SinkFinish

----------------------------------------------------------------------------
\* AudioCutterApp: the controller of the application

\* self.audio_thread.as_ref().unwrap().send(command).unwrap(), then the
\* assignments that follow it; an Err panics and the app unwinds
AppSend(command, status, file, source) ==
    /\ ctlPc = "live"
    /\ nSent < MaxSent
    /\ send(command)
    /\ IF receiverAlive
       THEN /\ ctlPc' = "live"
            /\ playback_status' = status
            /\ current_file_name' = file
            /\ audio_source' = source
       ELSE /\ ctlPc' = "unwinding"
            /\ UNCHANGED appVars
    /\ UNCHANGED <<commands_sender, thread_handle, drops>>
    /\ UNCHANGED <<receiverAlive, workerVars, cellVars>>
    /\ UNCHANGED <<nApplied, lastApplied, lastWrite, lastRead, readStale,
                   appliedAfterClose, playApplied>>

\* open_file_button: a file was picked; Stop is sent, the file is loaded
OpenFile ==
    \E source \in Sources : AppSend(Stop, playback_status, TRUE, source)

\* playback_control: the Stop button
StopButton ==
    /\ current_file_name
    /\ AppSend(Stop, "Stopped", current_file_name, audio_source)

\* playback_control: the Play/Pause button
PlayPauseButton ==
    /\ current_file_name
    /\ \/ /\ playback_status = "Playing"
          /\ AppSend(Pause, "Paused", current_file_name, audio_source)
       \/ /\ playback_status = "Paused"
          /\ AppSend(Continue, "Playing", current_file_name, audio_source)
       \/ /\ playback_status = "Stopped"
          /\ AppSend(Play(audio_source), "Playing", current_file_name, audio_source)

\* update: the elapsed time is printed once a file is open
UpdateRead ==
    /\ current_file_name
    /\ ReadLock

\* The handle driven by the application
AppNext ==
    \/ OpenFile \/ StopButton \/ PlayPauseButton
    \/ UpdateRead \/ ReadCopy
    \/ DropCloseSender \/ DropJoin \/ JoinReturn
    \/ WorkerNext
    \/ SinkNext

AppSpec == Init /\ [][AppNext]_vars

----------------------------------------------------------------------------
\* The handle driven by any caller
Next ==
    \/ Send \/ ReadLock \/ ReadCopy
    \/ DropCloseSender \/ DropJoin \/ JoinReturn
    \/ WorkerNext
    \/ SinkNext

Spec == Init /\ [][Next]_vars

\* Both threads are scheduled by the OS: a worker step that can be taken is
\* taken, and a controller inside time_elapsed() or drop() goes on.
FairSpec ==
    /\ Spec
    /\ WF_vars(WorkerNext)
    /\ WF_vars(ReadCopy)
    /\ WF_vars(DropJoin)
    /\ WF_vars(JoinReturn)

\* ... and a worker waiting in lock() gets the mutex: the controller holds it
\* only for the copy in time_elapsed() and releases it between two calls.
LockFairSpec ==
    /\ FairSpec
    /\ SF_vars(TickLock)
    /\ SF_vars(StopLock)

----------------------------------------------------------------------------
\* Properties

ReadStep == ctlPc = "reading" /\ ctlPc' = "live"
ApplyStep == nApplied' # nApplied
WorkerEnded == workerPc \in {"done", "panicked"}

\* C1: once the Stop arm has reset the cell, the cell holds zero and every
\* time_elapsed() returns zero, until a tick of the worker writes the cell
\* (lastWrite stays "stop" from the reset to the next tick's write).
C1_StopResetsElapsed ==
    /\ [](lastWrite = "stop" => time_elapsed = 0)
    /\ [][(ReadStep /\ lastWrite = "stop") => lastRead' = 0]_vars

\* C1 witness: a Stop was applied after an earlier command, its arm is over,
\* and the controller is inside time_elapsed() after the reset and before
\* any tick
C1_Witness ==
    /\ lastWrite = "stop"
    /\ nApplied >= 2 /\ lastApplied.op = "Stop"
    /\ ctlPc = "reading"
    /\ workerPc = "recv"

\* C2: once drop() has started, the send side is closed before the join, the
\* join returns, and when drop() is over the worker thread has ended (drop
\* ends by unwinding when the join reports the worker's panic).
C2_DropCompletes ==
    /\ [](ctlPc = "joining" => ~commands_sender)
    /\ [](ctlPc \in {"drop_join", "joining"}
            => <>(ctlPc \in {"dropped", "drop_panicked"}))
    /\ [](ctlPc \in {"dropped", "drop_panicked"} => WorkerEnded)

\* C2 witness: the drop completed on a worker that had started and had
\* applied commands
C2_Witness ==
    /\ ctlPc = "dropped" /\ drops = 1
    /\ workerPc = "done"
    /\ nApplied >= 1

\* C3: the k-th command passed to handle_command is the k-th command accepted
\* by send, unchanged: every receive applies the oldest queued command, the
\* one numbered nApplied + 1, and the channel holds the accepted commands not
\* yet applied, in send order.
C3_AppliedInSendOrder ==
    /\ [](receiverAlive
            => /\ Len(queue) = nSent - nApplied
               /\ \A i \in 1..Len(queue) : queue[i].seq = nApplied + i)
    /\ [](nApplied <= nSent /\ lastApplied.seq = nApplied)
    /\ [][ApplyStep
            => /\ nApplied' = nApplied + 1
               /\ queue # <<>> /\ lastApplied' = Head(queue)
               /\ queue' = Tail(queue)]_vars

\* C3 witness: the first command was received by recv (the sink was empty)
\* and the Pause by try_recv (the source is still in the sink), with a third
\* command queued
C3_Witness ==
    /\ nApplied = 2 /\ lastApplied.op = "Pause"
    /\ audio_sink.queue # <<>> /\ audio_sink.paused
    /\ Len(queue) = 1 /\ queue[1].op = "Continue"

\* C4 as stated: once the send side is closed no command is passed to
\* handle_command any more.
C4_NothingAppliedAfterClose ==
    [][~commands_sender => ~ApplyStep]_vars

\* C4 amended: commands queued at closure are still received and applied, in
\* order; the worker returns only from an empty channel, having applied every
\* accepted command, and applies nothing after it has returned; no command is
\* accepted after closure.
C4_QueuedCommandsDrained ==
    /\ [](workerPc = "done" => queue = <<>> /\ nApplied = nSent)
    /\ [][workerPc = "done" => ~ApplyStep]_vars
    /\ [][~commands_sender => nSent' = nSent]_vars

\* C4 witness: the worker returned after applying two commands that were
\* still queued when the send side was closed
C4_Witness ==
    /\ workerPc = "done"
    /\ ~commands_sender
    /\ appliedAfterClose = 2

\* C5: the sink never holds more than one source, and right after Play(B) is
\* applied it holds exactly B and is not paused.
C5_OneSourceAfterPlay ==
    /\ [](Len(audio_sink.queue) <= 1)
    /\ [][(ApplyStep /\ lastApplied'.op = "Play")
            => /\ audio_sink'.queue = <<lastApplied'.src>>
               /\ ~audio_sink'.paused]_vars

\* C5 witness: Play(B) was applied after an earlier Play whose playback had
\* been sampled by a tick (the cell still holds that sample), and the sink
\* holds B alone
C5_Witness ==
    /\ nApplied = 2 /\ lastApplied.op = "Play" /\ lastApplied.src = "B"
    /\ lastWrite = "stale" /\ time_elapsed >= 1
    /\ audio_sink.queue = <<"B">>
    /\ ~audio_sink.paused

\* C6 as stated: of two consecutive reads with no Stop and no Play applied
\* between them, the second is not smaller than the first (lastRead is the
\* earlier read's value, and 0 when a Stop or Play was applied since).
C6_ReadsNonDecreasing ==
    [][ReadStep => lastRead' >= lastRead]_vars

\* C6 amended: ... provided the first of the two reads did not return a value
\* written before the last Play was applied (the Play arm leaves the cell as
\* it is, so until the next tick the cell still holds the previous playback's
\* position).
C6_FreshReadsNonDecreasing ==
    [][(ReadStep /\ ~readStale) => lastRead' >= lastRead]_vars

\* C6 witness: a read since the Play returned a non-zero position, a Pause
\* and a Continue were applied, and the controller is inside the next read
C6_Witness ==
    /\ lastRead >= 1 /\ ~readStale
    /\ ctlPc = "reading" /\ time_elapsed >= lastRead
    /\ nApplied = 3 /\ lastApplied.op = "Continue"
    /\ audio_sink.queue # <<>> /\ ~audio_sink.paused

\* C7: a worker that found the sink empty or paused at the top of the loop
\* goes to the blocking recv; while it is there it does not sample, write the
\* cell, take the lock, repaint or sleep, and it leaves only with a command
\* or, on an empty channel without sender, by returning.
C7_IdleOnlyReceives ==
    /\ [][(workerPc = "loop" /\ workerPc' # "loop"
             /\ (audio_sink.queue = <<>> \/ audio_sink.paused))
            => workerPc' = "recv"]_vars
    /\ [][workerPc = "recv"
            => /\ UNCHANGED <<time_elapsed, sampled, repaints>>
               /\ lockHolder' # "worker"
               /\ \/ workerPc' = "recv"
                  \/ ApplyStep
                  \/ workerPc' = "done" /\ queue = <<>> /\ ~commands_sender]_vars

\* C7 witness: the worker polled (a tick wrote the cell), a Pause was applied
\* and the worker now blocks in recv on an empty channel with the source
\* still in the sink
C7_Witness ==
    /\ workerPc = "recv"
    /\ audio_sink.queue # <<>> /\ audio_sink.paused
    /\ queue = <<>> /\ commands_sender
    /\ lastWrite = "tick" /\ time_elapsed >= 1

\* C8: once the worker thread has ended, send returns Err to a live caller,
\* which goes on (no panic, no blocking); the command is neither queued nor
\* applied.
C8_SendAfterExitFails ==
    /\ [][WorkerEnded
            => /\ queue' = queue /\ nSent' = nSent /\ ~ApplyStep
               /\ sendResult' \in {sendResult, "Err"}]_vars
    /\ []((WorkerEnded /\ ctlPc = "live" /\ nSent < MaxSent)
            => ENABLED (Send /\ sendResult' = "Err" /\ ctlPc' = "live"))

\* C8 witness: the device could not be acquired, and a send made after that
\* returned Err
C8_Witness ==
    /\ workerPc = "panicked"
    /\ ctlPc = "live"
    /\ sendResult = "Err"
    /\ queue = <<>> /\ nApplied = 0

\* C9: when the join returns for a worker that panicked, drop() does not
\* complete normally: the panic is raised in the owner.
C9_JoinSurfacesFault ==
    /\ [][(ctlPc = "joining" /\ ctlPc' # "joining" /\ workerPc = "panicked")
            => ctlPc' = "drop_panicked"]_vars
    /\ [](ctlPc = "dropped" => workerPc = "done")

\* C9 witness: the worker panicked at startup and the teardown raised it
C9_Witness ==
    /\ ctlPc = "drop_panicked"
    /\ workerPc = "panicked"
    /\ ~thread_handle /\ ~commands_sender

\* C10: running the body of drop() again on a handle already torn down
\* changes nothing: it does not join, block or fault.
C10_TeardownIdempotent ==
    [][drops' >= 2
        => /\ ctlPc' \in {"drop_join", "dropped"}
           /\ UNCHANGED <<commands_sender, thread_handle, sendResult>>
           /\ UNCHANGED <<chanVars, workerVars, cellVars, histVars, appVars>>]_vars

\* C10 witness: the second teardown has run to its end
C10_Witness ==
    /\ drops = 2
    /\ ctlPc = "dropped"
    /\ ~commands_sender /\ ~thread_handle

\* The worker is back at the top of the loop with the last command a Continue
\* and the sink holding a source and playing
Resumed ==
    /\ workerPc = "loop"
    /\ lastApplied.op = "Continue"
    /\ audio_sink.queue # <<>> /\ ~audio_sink.paused

\* The worker waits in recv with a paused source in the sink and a Continue
\* is the next command in the channel
ContinueDue ==
    /\ workerPc = "recv"
    /\ audio_sink.queue # <<>> /\ audio_sink.paused
    /\ queue # <<>> /\ Head(queue).op = "Continue"

\* C11 as stated (second half): after a Continue is applied to a paused,
\* non-empty sink the worker eventually performs a tick that writes the cell
\* (it is at "tick_repaint" right after the write).
C11_ContinueAlwaysTicks ==
    [](ContinueDue => <>(workerPc = "tick_repaint"))

\* C11 amended: while Pause is the last command applied the cell does not
\* change; after a Continue that leaves the sink non-empty and playing, the
\* worker eventually performs a tick that writes the sampled position, unless
\* a further command is in the channel, the send side gets closed or the
\* source reaches its end first.
C11_PauseFreezesContinueResumes ==
    /\ [][(lastApplied.op = "Pause" /\ ~ApplyStep)
            => time_elapsed' = time_elapsed]_vars
    /\ [][(workerPc = "tick_write" /\ workerPc' # "tick_write")
            => time_elapsed' = sampled]_vars
    /\ [](Resumed => <>(\/ workerPc = "tick_repaint"
                        \/ queue # <<>>
                        \/ ~commands_sender
                        \/ audio_sink.queue = <<>>))

\* C11 witness: Play, Pause and Continue were applied, and the tick after the
\* Continue has just written a non-zero position
C11_Witness ==
    /\ nApplied = 3 /\ lastApplied.op = "Continue"
    /\ workerPc = "tick_repaint"
    /\ time_elapsed >= 1
    /\ queue = <<>> /\ commands_sender

\* C12: the cell changes only in the write of a tick (to the position that
\* tick sampled) and in the write of the Stop arm (to zero); a tick is entered
\* only from a try_recv that found no command, sampling the sink's position;
\* the Stop arm only by applying Stop; applying a command neither writes the
\* cell in that step nor samples, and after Play, Pause or Continue the
\* worker is back at the top of the loop.
C12_CellWrittenByTickOrStop ==
    /\ [][time_elapsed' # time_elapsed
            => \/ workerPc = "tick_write" /\ time_elapsed' = sampled
               \/ workerPc = "stop_write" /\ time_elapsed' = 0]_vars
    /\ [][(workerPc = "tick_write" /\ workerPc' # workerPc)
            => time_elapsed' = sampled]_vars
    /\ [][(workerPc = "stop_write" /\ workerPc' # workerPc)
            => time_elapsed' = 0]_vars
    /\ [][(workerPc' = "tick_lock" /\ workerPc # "tick_lock")
            => /\ workerPc = "try_recv" /\ queue = <<>> /\ ~ApplyStep
               /\ sampled' = audio_sink.pos]_vars
    /\ [](workerPc \in {"stop_lock", "stop_write"} => lastApplied.op = "Stop")
    /\ [][ApplyStep
            => /\ UNCHANGED <<time_elapsed, sampled, lockHolder>>
               /\ workerPc' = IF lastApplied'.op = "Stop"
                              THEN "stop_lock" ELSE "loop"]_vars

\* C12 witness: the Play was taken by recv, the Continue by a try_recv (no
\* sample), and a later tick with no command ready has just written the
\* position of the source's end
C12_Witness ==
    /\ nApplied = 2 /\ lastApplied.op = "Continue"
    /\ workerPc = "tick_repaint"
    /\ lastWrite = "tick" /\ time_elapsed = SrcLen

\* handle_command has just returned and the worker is at the top of the loop
\* for the next iteration: no repaint since the last loop head for Play,
\* Pause and Continue, the Stop arm's repaint after its reset for Stop
JustApplied ==
    /\ workerPc = "loop"
    /\ \/ repaints = 0 /\ nApplied > 0 /\ lastApplied.op # "Stop"
       \/ repaints = 1 /\ lastWrite = "stop" /\ lastApplied.op = "Stop"

\* C13 as stated (for Play, which always leaves the sink non-empty and
\* unpaused): the iteration right after a Play is applied is Active-Polling.
C13_PlayThenPolling ==
    [][(JustApplied /\ lastApplied.op = "Play" /\ workerPc' # "loop")
        => workerPc' = "try_recv"]_vars

\* C13 amended: the wait mode of an iteration is decided by the sink's state
\* at the top of that iteration (blocking recv iff empty or paused); right
\* after a Pause or Stop the sink is empty or paused and the next iteration
\* is Idle-Waiting; right after a Play the sink is unpaused and holds the
\* source unless the source has already reached its end, and right after any
\* command that leaves the sink non-empty and unpaused the next iteration is
\* Active-Polling unless the source ends first.
C13_ModeFromSinkAtLoopHead ==
    /\ [][(workerPc = "loop" /\ workerPc' # "loop")
            => workerPc' = IF audio_sink.queue = <<>> \/ audio_sink.paused
                           THEN "recv" ELSE "try_recv"]_vars
    /\ [][(JustApplied /\ lastApplied.op \in {"Pause", "Stop"}
             /\ workerPc' # "loop")
            => workerPc' = "recv"]_vars
    /\ []((JustApplied /\ lastApplied.op = "Play")
            => /\ ~audio_sink.paused
               /\ audio_sink.queue \in {<<>>, <<lastApplied.src>>}
               /\ audio_sink.queue = <<>> => audio_sink.pos = SrcLen)
    /\ [][(JustApplied /\ workerPc' = "recv"
             /\ lastApplied.op \in {"Play", "Continue"})
            => audio_sink.queue = <<>>]_vars

\* C13 witness: Play, Pause and Continue were applied with no tick in between
\* (the cell was never written), and the iteration right after the Continue
\* is at try_recv
C13_Witness ==
    /\ workerPc = "try_recv" /\ repaints = 0
    /\ nApplied = 3 /\ lastApplied.op = "Continue"
    /\ lastWrite = "spawn"
    /\ audio_sink.queue # <<>>

\* C14: the worker holds the lock only between lock() and the write of a tick
\* or of the Stop arm, the controller only inside time_elapsed(); so the
\* worker does not hold it while blocked in recv, repainting or sleeping, nor
\* the controller while tearing down or joining; whoever holds the lock can
\* always take the step that releases it.
C14_NoLockAcrossBlocking ==
    /\ [](lockHolder = "worker" <=> workerPc \in {"tick_write", "stop_write"})
    /\ [](lockHolder = "controller" <=> ctlPc = "reading")
    /\ [](workerPc \in {"recv", "tick_repaint", "tick_sleep", "stop_repaint"}
            => lockHolder # "worker")
    /\ [](ctlPc \in {"drop_join", "joining"} => lockHolder # "controller")
    /\ [](lockHolder = "worker"
            => ENABLED ((TickWrite \/ StopWrite) /\ lockHolder' = "none"))
    /\ [](lockHolder = "controller"
            => ENABLED (ReadCopy /\ lockHolder' = "none"))

\* C14 witness: the worker waits in lock() for its tick while the controller
\* is inside time_elapsed()
C14_Witness ==
    /\ workerPc = "tick_lock"
    /\ lockHolder = "controller"
    /\ ctlPc = "reading"
    /\ sampled >= 1

\* C15: a worker that got past startup never panics and returns only from a
\* receive that found the channel empty with the send endpoint gone; so
\* while the handle owns the sender the worker has not returned; once
\* returned it stays returned.
C15_OnlyDisconnectEndsLoop ==
    /\ [](workerPc = "done" => ~commands_sender /\ queue = <<>>)
    /\ [](commands_sender => workerPc # "done")
    /\ [][(workerPc' = "done" /\ workerPc # "done")
            => /\ workerPc \in {"recv", "try_recv"}
               /\ ~commands_sender /\ queue = <<>>
               /\ ~ApplyStep]_vars
    /\ [][workerPc # "start" => workerPc' # "panicked" \/ workerPc = "panicked"]_vars
    /\ [][workerPc = "done"
            => UNCHANGED <<workerVars, time_elapsed, nApplied>>]_vars

\* C15 witness: the worker returned from the try_recv of a polling iteration
\* (the source is still playing, a tick had written the cell), after the
\* handle gave up the sender
C15_Witness ==
    /\ workerPc = "done"
    /\ audio_sink.queue # <<>> /\ ~audio_sink.paused
    /\ lastWrite = "tick"
    /\ ~commands_sender
    /\ ctlPc = "joining"

\* C16: repaints counts the request_repaint calls since the top of the
\* current iteration. It is raised only by the repaint of a tick (after the
\* tick's write, before its sleep) and by the repaint of the Stop arm (after
\* the reset, with the cell at zero); an iteration that ticked or applied
\* Stop ends with exactly one repaint, an iteration that applied Play, Pause
\* or Continue with none, and a worker in recv has requested none.
C16_RepaintOncePerStopAndTick ==
    /\ [](repaints \in {0, 1})
    /\ [][repaints' # repaints
            => \/ workerPc = "loop" /\ repaints' = 0
               \/ /\ workerPc \in {"tick_repaint", "stop_repaint"}
                  /\ repaints = 0 /\ repaints' = 1]_vars
    /\ [](workerPc = "tick_repaint" => repaints = 0 /\ lastWrite = "tick")
    /\ [](workerPc = "tick_sleep" => repaints = 1)
    /\ [](workerPc = "stop_repaint"
            => repaints = 0 /\ lastWrite = "stop" /\ time_elapsed = 0)
    /\ []((workerPc = "loop" /\ lastApplied.op = "Stop") => repaints = 1)
    /\ [][(workerPc = "tick_sleep" /\ workerPc' # workerPc)
            => workerPc' = "loop" /\ repaints' = 1]_vars
    /\ [][(ApplyStep /\ lastApplied'.op # "Stop")
            => workerPc' = "loop" /\ repaints' = 0]_vars
    /\ [](workerPc \in {"recv", "try_recv", "tick_lock", "tick_write",
                        "stop_lock", "stop_write"} => repaints = 0)

\* C16 witness: a Stop applied during playback (after a Play and a tick) has
\* run its arm to the end, with its one repaint
C16_Witness ==
    /\ workerPc = "loop"
    /\ nApplied = 2 /\ lastApplied.op = "Stop"
    /\ lastWrite = "stop" /\ time_elapsed = 0
    /\ repaints = 1
    /\ audio_sink.queue = <<>>

\* The command most recently accepted by send: the newest one in the channel,
\* or the last one applied when the worker has taken them all (known as long
\* as the channel was not dropped with commands in it)
LastSentKnown == nSent > 0 /\ (queue # <<>> \/ nApplied = nSent)
LastSent == IF queue # <<>> THEN Last(queue) ELSE lastApplied

\* C17 as stated: after every sequence of UI actions the mirrored status is
\* Stopped if the last command sent was Stop, Playing if it was Play or
\* Continue, Paused if it was Pause.
C17_StatusMirrorsLastSent ==
    LastSentKnown
        => playback_status = CASE LastSent.op = "Stop" -> "Stopped"
                               [] LastSent.op = "Pause" -> "Paused"
                               [] LastSent.op \in {"Play", "Continue"} -> "Playing"

\* A step of the controller thread: it moves the controller, changes the
\* handle or the app's fields, or has a command accepted
ControllerStep ==
    \/ ctlVars' # ctlVars
    \/ appVars' # appVars
    \/ nSent' # nSent

\* C18: a controller step (a UI action sending a command, either half of
\* time_elapsed(), a step of the teardown) leaves the sink, the cell and the
\* worker where they are; the cell does not change while the controller holds
\* or takes the lock, it changes only under the worker's lock; the sink is
\* paused, resumed or filled only by a command being applied.
C18_ControllerLeavesSinkAndCell ==
    /\ [][ControllerStep
            => UNCHANGED <<audio_sink, time_elapsed, workerPc, sampled, repaints>>]_vars
    /\ [][(lockHolder = "controller" \/ lockHolder' = "controller")
            => time_elapsed' = time_elapsed]_vars
    /\ [][time_elapsed' # time_elapsed => lockHolder = "worker"]_vars
    /\ [][(\/ audio_sink'.paused # audio_sink.paused
           \/ Len(audio_sink'.queue) > Len(audio_sink.queue))
            => ApplyStep /\ ~ControllerStep]_vars

\* C18 witness: the app has sent Stop, Play and Pause, the source is paused in
\* the sink, and the app has read a non-zero elapsed time that is still in
\* the cell
C18_Witness ==
    /\ ctlPc = "live"
    /\ playback_status = "Paused" /\ nSent = 3
    /\ lastRead >= 1 /\ time_elapsed = lastRead
    /\ audio_sink.queue # <<>> /\ audio_sink.paused

\* C19: while no Play has been applied since the spawn or since the last
\* Stop (whose arm has reset the cell), the sink is empty, the worker is not
\* in a polling iteration, the cell holds zero and is not written, and every
\* time_elapsed() returns zero, whatever Pause and Continue commands are
\* applied in between.
C19_ZeroUntilPlay ==
    /\ []((~playApplied /\ workerPc \notin {"stop_lock", "stop_write"})
            => time_elapsed = 0)
    /\ [](~playApplied
            => /\ audio_sink.queue = <<>>
               /\ workerPc \notin {"try_recv", "tick_lock", "tick_write",
                                   "tick_repaint", "tick_sleep"})
    /\ [][(~playApplied /\ ~playApplied' /\ workerPc # "stop_write")
            => time_elapsed' = time_elapsed]_vars
    /\ [][(ApplyStep /\ ~playApplied /\ lastApplied'.op \in {"Pause", "Continue"})
            => audio_sink'.queue = <<>> /\ workerPc' = "loop"]_vars
    /\ [][(ReadStep /\ ~playApplied /\ workerPc # "stop_lock")
            => lastRead' = 0]_vars

\* C19 witness: after a Stop whose arm has run, a Continue was applied to the
\* emptied sink (third command), the worker is back in recv, and the
\* controller is inside time_elapsed()
C19_Witness ==
    /\ ~playApplied
    /\ nApplied = 3 /\ lastApplied.op = "Continue"
    /\ lastWrite = "stop"
    /\ audio_sink.queue = <<>> /\ ~audio_sink.paused
    /\ workerPc = "recv"
    /\ ctlPc = "reading"

\* C20: once the worker has got past startup, accepted commands do not wait
\* in the channel for ever: either the worker keeps passing commands to
\* handle_command again and again, or from some point on every accepted
\* command has been applied; each receive (the blocking recv or the next
\* try_recv) takes the oldest command waiting. So every accepted command is
\* eventually applied.
C20_AcceptedEventuallyApplied ==
    /\ \/ []<><<ApplyStep>>_vars
       \/ <>[](workerPc \in {"start", "panicked"} \/ nApplied = nSent)
    /\ [][ApplyStep => queue # <<>> /\ lastApplied' = Head(queue)]_vars
    /\ [](workerPc \notin {"start", "panicked"} => Len(queue) = nSent - nApplied)

\* C20 witness: the Play was taken by the blocking recv, and the Pause, sent
\* while the worker was polling (a tick had written the cell), by a try_recv;
\* the handle is alive and nothing is left in the channel
C20_Witness ==
    /\ commands_sender /\ ctlPc = "live"
    /\ nSent = 2 /\ nApplied = 2 /\ lastApplied.op = "Pause"
    /\ lastWrite = "tick" /\ time_elapsed >= 1
    /\ audio_sink.queue # <<>> /\ audio_sink.paused
    /\ workerPc = "loop"

====
